---- MODULE Spec2Model ----
(***************************************************************************)
(* Model of riff/utils.py: parse_ruff_output, parse_git_modified_lines     *)
(* (with its inner parse_modified_lines) and validate_repo_path.           *)
(*                                                                         *)
(* The module is single-threaded and keeps no state between calls, so a    *)
(* behaviour is one call: Init draws the operation, its arguments and the  *)
(* environment (working directory, repository, what git diff reports), and *)
(* the actions are the consecutive steps of the called function.           *)
(*                                                                         *)
(* Encodings.  An optional value is a sequence: None is <<>> and a present *)
(* value v is <<v>>.  A text is a sequence of characters (line contents)   *)
(* or of lexical tokens (the Ruff report).  A path is the sequence of its  *)
(* components.  A dict is a function.                                      *)
(***************************************************************************)
EXTENDS Integers, Sequences, FiniteSets, TLC

\* ------------------------------------------------------------------ bounds
MaxHunks == 2      \* hunks of a patched file (parse_modified_lines inputs)
MaxLines == 2      \* line entries of a patched file, over all its hunks
MaxLineNo == 2     \* largest target-side line number
MaxFiles == 2      \* per-file patches of one diff
MaxRuffLen == 5    \* tokens of a Ruff report
MaxDepth == 2      \* components of the working directory (validate_repo_path)

\* ------------------------------------------------------------- optionals
None == <<>>
Some(v) == <<v>>
\* Python truthiness of an optional str: None and "" are falsy
Falsy(opt) == opt = None \/ opt[1] = ""

Range(s) == {s[i] : i \in 1..Len(s)}
SeqsUpTo(S, n) == UNION {[1..k -> S] : k \in 0..n}

\* ------------------------------------------------------------ DiffMode
BRANCH == "branch"
UNSTAGED == "unstaged"
STAGED == "staged"
REF == "ref"
DiffMode == {BRANCH, UNSTAGED, STAGED, REF}

\* ----------------------------------------------------------------- paths
\* Path(p).parent: the root is its own parent
Parent(p) == IF Len(p) = 0 THEN p ELSE SubSeq(p, 1, Len(p) - 1)
\* repo_root / patched_file.path, for the relative paths a diff declares
Join(root, rel) == root \o rel
\* Path.resolve(): the component "lnk" is a symbolic link to its sibling "dir"
ResolveComponent(c) == IF c = "lnk" THEN "dir" ELSE c
Resolve(p) == [i \in 1..Len(p) |-> ResolveComponent(p[i])]

\* Repo(search_parent_directories=True): the nearest ancestor of cwd (cwd
\* included) holding repository metadata; gitDir is None or Some(git_dir)
RepoFound(gitDir) == gitDir # None

\* ------------------------------------------------- unified-diff line entries
Whitespace == {" ", "\t", "\n"}
RECURSIVE LStrip(_)
LStrip(s) == IF Len(s) > 0 /\ Head(s) \in Whitespace THEN LStrip(Tail(s)) ELSE s
RECURSIVE RStrip(_)
RStrip(s) ==
    IF Len(s) > 0 /\ s[Len(s)] \in Whitespace
    THEN RStrip(SubSeq(s, 1, Len(s) - 1)) ELSE s
\* str.strip()
Strip(s) == RStrip(LStrip(s))

ADDED == "+"
REMOVED == "-"
CONTEXT == " "
\* line contents: empty, whitespace only, code between whitespace
LineValues == {<<>>, <<" ", "\n">>, <<" ", "x", "\n">>}
\* unidiff.Line: a removed line has no target line number, a context line has
\* one; the code guards an added line against a missing one
Lines ==
    {[line_type |-> ADDED, value |-> v, target_line_no |-> t] :
        v \in LineValues, t \in {None} \cup {Some(n) : n \in 1..MaxLineNo}}
    \cup {[line_type |-> REMOVED, value |-> v, target_line_no |-> None] :
        v \in LineValues}
    \cup {[line_type |-> CONTEXT, value |-> v, target_line_no |-> Some(n)] :
        v \in LineValues, n \in 1..MaxLineNo}
is_added(line) == line.line_type = ADDED

\* the hunks of a patched file: the line entries `entries`, cut into consecutive
\* hunks of the lengths `sizes`
RECURSIVE SumTo(_, _)
SumTo(sizes, i) == IF i = 0 THEN 0 ELSE sizes[i] + SumTo(sizes, i - 1)
HunksOf(entries, sizes) ==
    [h \in 1..Len(sizes) |->
        SubSeq(entries, SumTo(sizes, h - 1) + 1, SumTo(sizes, h))]

\* the line entries of a patched file, over all of its hunks
RECURSIVE AllLines(_)
AllLines(hunks) ==
    IF hunks = <<>> THEN {} ELSE Range(Head(hunks)) \cup AllLines(Tail(hunks))

\* a unidiff.PatchedFile: its declared path and its hunks
PatchedFile(path, hunks) == [path |-> path, hunks |-> hunks]

parse_modified_lines_no_strip(pf) ==
    {line.target_line_no[1] : line \in
        {l \in AllLines(pf.hunks) : is_added(l) /\ l.target_line_no # None}}
parse_modified_lines(pf) ==
    {line.target_line_no[1] : line \in
        {l \in AllLines(pf.hunks) :
            is_added(l) /\ Strip(l.value) # <<>> /\ l.target_line_no # None}}

\* ------------------------------------------------ what git diff can report
FileNames == <<"a.py", "b.py", "c.py", "d.py">>
FilePath(i) == <<"pkg", FileNames[i]>>
BlankLine == <<" ", "\n">>
CodeLine == <<" ", "x", "\n">>
Entry(t, v, n) == [line_type |-> t, value |-> v, target_line_no |-> n]
\* the hunks of one file: none (a mode change, a rename, a binary file), only a
\* deletion, only an added blank line, an added line of code
SampleHunks ==
    { <<>>,
      << <<Entry(CONTEXT, CodeLine, Some(1)), Entry(REMOVED, CodeLine, None)>> >>,
      << <<Entry(ADDED, BlankLine, Some(1))>> >>,
      << <<Entry(REMOVED, CodeLine, None), Entry(ADDED, CodeLine, Some(1))>>,
         <<Entry(ADDED, BlankLine, Some(2))>> >> }
\* git reports each changed path once, in path order: f says, per path, whether
\* it is reported (Some(hunks)) or not (None)
RECURSIVE PatchSetOf(_, _)
PatchSetOf(f, i) ==
    IF i = 0 THEN <<>>
    ELSE IF f[i] = None THEN PatchSetOf(f, i - 1)
    ELSE Append(PatchSetOf(f, i - 1), PatchedFile(FilePath(i), f[i][1]))
PatchSets ==
    {PatchSetOf(f, MaxFiles) :
        f \in [1..MaxFiles -> {None} \cup {Some(h) : h \in SampleHunks}]}

\* --------------------------------------------- parse_git_modified_lines
MsgBranch == "base_branch is required for BRANCH mode"
MsgRef == "diff_ref is required for REF mode"
Prepared(err, args) == [error |-> err, diff_args |-> args]

\* lines 89-104: the arguments of the diff, or the message of the ValueError
PrepareDiffArgs_swapped(m, bb, dr) ==
    CASE m = BRANCH ->
            IF Falsy(bb) THEN Prepared(Some(MsgBranch), <<>>) ELSE Prepared(None, <<bb[1]>>)
      [] m = UNSTAGED -> Prepared(None, <<>>)
      [] m = STAGED ->
            IF Falsy(bb) THEN Prepared(None, <<"--cached">>)
            ELSE Prepared(None, <<"--cached", bb[1]>>)
      [] m = REF ->
            IF Falsy(dr) THEN Prepared(Some(MsgRef), <<>>) ELSE Prepared(None, <<dr[1]>>)
PrepareDiffArgs_is_none(m, bb, dr) ==
    CASE m = BRANCH ->
            IF bb = None THEN Prepared(Some(MsgBranch), <<>>) ELSE Prepared(None, <<bb[1]>>)
      [] m = UNSTAGED -> Prepared(None, <<>>)
      [] m = STAGED -> Prepared(None, <<"--cached">>)
      [] m = REF ->
            IF dr = None THEN Prepared(Some(MsgRef), <<>>) ELSE Prepared(None, <<dr[1]>>)
PrepareDiffArgs(m, bb, dr) ==
    CASE m = BRANCH ->
            IF Falsy(bb) THEN Prepared(Some(MsgBranch), <<>>) ELSE Prepared(None, <<bb[1]>>)
      [] m = UNSTAGED -> Prepared(None, <<>>)
      [] m = STAGED -> Prepared(None, <<"--cached">>)
      [] m = REF ->
            IF Falsy(dr) THEN Prepared(Some(MsgRef), <<>>) ELSE Prepared(None, <<dr[1]>>)

\* lines 107-111: the keyword options of every invocation
DiffKwargs == {"ignore_blank_lines", "ignore_space_at_eol"}
Invocation(args) == [args |-> args, kwargs |-> DiffKwargs]

\* lines 113-116: the dict comprehension; a later patch of the same key wins
KeyOf(root, pf) == Join(root, pf.path)
LastWith(root, ps, k) ==
    CHOOSE i \in 1..Len(ps) :
        /\ KeyOf(root, ps[i]) = k
        /\ \A j \in (i + 1)..Len(ps) : KeyOf(root, ps[j]) # k
BuildResult_skip_empty(root, ps) ==
    [k \in {KeyOf(root, ps[i]) : i \in {j \in 1..Len(ps) : parse_modified_lines(ps[j]) # {}}}
        |-> parse_modified_lines(ps[LastWith(root, ps, k)])]
BuildResult(root, ps) ==
    [k \in {KeyOf(root, ps[i]) : i \in 1..Len(ps)}
        |-> parse_modified_lines(ps[LastWith(root, ps, k)])]
EmptyMap == <<>>
\* "if result:" -- a dict is truthy when it has a key
Truthy(d) == DOMAIN d # {}

\* -------------------------------------------------------------- logging
Log(level, msg, detail) == [level |-> level, msg |-> msg, detail |-> detail]
Logged(l, level, msg) == \E i \in 1..Len(l) : l[i].level = level /\ l[i].msg = msg
MsgRuffStdout == "ruff_stdout="
MsgNoRuff == "No ruff output, assuming no violations"
MsgNotJson == "Could not parse Ruff output as JSON"
MsgParsed == "parsed ruff violations"
MsgModified == "modified lines:"
MsgNoLines == "could not find any git-modified lines in"
MsgNoRepo == "Cannot detect repository in"

\* ------------------------------------------------------------- outcomes
NoOutcome == [kind |-> "none", exc |-> "", msg |-> "", code |-> 0]
Return == [kind |-> "return", exc |-> "", msg |-> "", code |-> 0]
Raise(exc, msg) == [kind |-> "raise", exc |-> exc, msg |-> msg, code |-> 0]
Exit(code) == [kind |-> "exit", exc |-> "typer.Exit", msg |-> "", code |-> code]

\* --------------------------------------------------- parse_ruff_output
\* The report is a sequence of lexical tokens: the brackets and the comma of a
\* JSON array, and two tokens that each stand for one whole JSON object of a
\* Ruff finding ("objFix" carries a fix, "objNoFix" does not).
ObjectTokens == {"objFix", "objNoFix"}
RuffTokens == {"[", "]", ","} \cup ObjectTokens
RawObject(tok) ==
    IF tok = "objFix"
    THEN [code |-> "E0001", filename |-> "file.py",
          location |-> [row |-> 1, column |-> 2],
          end_location |-> [row |-> 3, column |-> 4],
          message |-> "Error message", fix |-> Some([message |-> "Fix suggestion"])]
    ELSE [code |-> "F401", filename |-> "other.py",
          location |-> [row |-> 5, column |-> 1],
          end_location |-> [row |-> 5, column |-> 9],
          message |-> "unused import", fix |-> None]

\* decoded JSON values
ObjVal(tok) == [kind |-> "object", tok |-> tok, items |-> <<>>]
ArrVal(items) == [kind |-> "array", tok |-> "", items |-> items]
Parsed(val, next) == [ok |-> TRUE, val |-> val, next |-> next]
ParseFail == [ok |-> FALSE, val |-> ArrVal(<<>>), next |-> 0]

\* json.loads: value := object | "[" "]" | "[" value ("," value)* "]"
RECURSIVE ParseValue(_, _)
RECURSIVE ParseElements(_, _, _)
ParseValue(s, i) ==
    IF i > Len(s) THEN ParseFail
    ELSE IF s[i] \in ObjectTokens THEN Parsed(ObjVal(s[i]), i + 1)
    ELSE IF s[i] = "["
        THEN IF i + 1 <= Len(s) /\ s[i + 1] = "]"
             THEN Parsed(ArrVal(<<>>), i + 2)
             ELSE ParseElements(s, i + 1, <<>>)
    ELSE ParseFail
ParseElements(s, i, items) ==
    LET v == ParseValue(s, i) IN
    IF ~v.ok \/ v.next > Len(s) THEN ParseFail
    ELSE IF s[v.next] = "]" THEN Parsed(ArrVal(Append(items, v.val)), v.next + 1)
    ELSE IF s[v.next] = "," THEN ParseElements(s, v.next + 1, Append(items, v.val))
    ELSE ParseFail
\* ok is FALSE where json.loads raises JSONDecodeError (trailing text included)
json_loads(s) ==
    LET r == ParseValue(s, 1) IN
    IF r.ok /\ r.next = Len(s) + 1 THEN r ELSE ParseFail

\* the report Ruff emits when it emits JSON: an array of finding objects
IsFindingArray(val) ==
    val.kind = "array" /\ \A i \in 1..Len(val.items) : val.items[i].kind = "object"
IsRuffOutput(s) == json_loads(s).ok => IsFindingArray(json_loads(s).val)

\* Violation.parse (riff/violation.py): one finding object, field for field
Violation_parse(raw) ==
    [error_code |-> raw.code, path |-> raw.filename,
     line_start |-> raw.location.row, line_end |-> raw.end_location.row,
     column_start |-> raw.location.column, column_end |-> raw.end_location.column,
     message |-> raw.message, linter_name |-> "Ruff",
     is_autofixable |-> raw.fix # None,
     fix_suggestion |-> IF raw.fix = None THEN None ELSE Some(raw.fix[1].message)]

\* tuple(map(Violation.parse, raw_violations))
MapParse_reversed(items) ==
    [i \in 1..Len(items) |-> Violation_parse(RawObject(items[Len(items) + 1 - i].tok))]
MapParse(items) == [i \in 1..Len(items) |-> Violation_parse(RawObject(items[i].tok))]

\* ---------------------------------------------------------------- state
VARIABLES
    op,              \* the function called
    pc,              \* the position in it
    cwd,             \* environment: the working directory
    git_dir,         \* environment: None, or Some(repo.git_dir) of the enclosing repository
    git_diff,        \* environment: the per-file patches git diff reports (as PatchSet reads them)
    mode, base_branch, diff_ref,    \* arguments of parse_git_modified_lines
    ruff_stdout,     \* argument of parse_ruff_output: None, or Some(text)
    patched_file,    \* argument of parse_modified_lines
    repo_root, diff_args, patch_set, result,   \* locals of parse_git_modified_lines
    repo_lookups,    \* number of Repo(search_parent_directories=True) calls
    diff_calls,      \* the invocations of repo.git.diff, in order
    changed_lines,   \* the set parse_modified_lines returned
    json_calls,      \* number of json.loads calls
    raw_violations,  \* local of parse_ruff_output: None, or Some(decoded value)
    parse_calls,     \* number of Violation.parse calls
    violations,      \* the tuple parse_ruff_output returned
    repo_path,       \* None, or Some(path validate_repo_path returned)
    log,             \* the records logged, in order
    outcome          \* how the call ended
env == <<cwd, git_dir, git_diff>>
args == <<op, mode, base_branch, diff_ref, ruff_stdout, patched_file>>
git_locals == <<repo_root, diff_args, patch_set, result, diff_calls>>
ruff_locals == <<json_calls, raw_violations, parse_calls, violations>>
vars == <<env, args, pc, git_locals, repo_lookups, changed_lines, ruff_locals,
          repo_path, log, outcome>>

PARSE_RUFF == "parse_ruff_output"
PARSE_GIT == "parse_git_modified_lines"
PARSE_LINES == "parse_modified_lines"
VALIDATE == "validate_repo_path"

\* everything a call has not touched yet
Fresh ==
    /\ pc = "start"
    /\ repo_root = <<>> /\ diff_args = <<>> /\ patch_set = <<>> /\ result = EmptyMap
    /\ repo_lookups = 0 /\ diff_calls = <<>>
    /\ changed_lines = {}
    /\ json_calls = 0 /\ raw_violations = None /\ parse_calls = 0 /\ violations = <<>>
    /\ repo_path = None
    /\ log = <<>>
    /\ outcome = NoOutcome
NoGitArgs == mode = UNSTAGED /\ base_branch = None /\ diff_ref = None
NoPatchedFile == patched_file = PatchedFile(<<>>, <<>>)

\* ----------------------------------------------------------- environments
WorkDir == <<"dir", "lnk">>
GitDirAt(root) == Some(root \o <<".git">>)
\* the repository holding the working directory: none, the directory itself, its parent
GitDirs == {None, GitDirAt(WorkDir), GitDirAt(Parent(WorkDir))}
OptStrings(v) == {None, Some(""), Some(v)}
WorkDirs == SeqsUpTo({"dir", "lnk"}, MaxDepth)
AncestorsOf(p) == {SubSeq(p, 1, k) : k \in 0..Len(p)}

InitGit ==
    /\ op = PARSE_GIT
    /\ cwd = WorkDir
    /\ git_dir \in GitDirs
    \* with no repository there is no diff to report
    /\ git_diff \in (IF git_dir = None THEN {<<>>} ELSE PatchSets)
    /\ mode \in DiffMode
    /\ base_branch \in OptStrings("origin/main")
    /\ diff_ref \in OptStrings("HEAD~1")
    /\ ruff_stdout = None /\ NoPatchedFile
    /\ Fresh
InitRuff ==
    /\ op = PARSE_RUFF
    /\ \E n \in 0..MaxRuffLen : \E s \in [1..n -> RuffTokens] :
            /\ IsRuffOutput(s)
            \* the empty text stands for the absent one as well
            /\ ruff_stdout \in (IF n = 0 THEN {None, Some(s)} ELSE {Some(s)})
    /\ cwd = WorkDir /\ git_dir = None /\ git_diff = <<>>
    /\ NoGitArgs /\ NoPatchedFile
    /\ Fresh
InitValidate ==
    /\ op = VALIDATE
    /\ cwd \in WorkDirs
    /\ git_dir \in {None} \cup {GitDirAt(a) : a \in AncestorsOf(cwd)}
    /\ git_diff = <<>>
    /\ NoGitArgs /\ ruff_stdout = None /\ NoPatchedFile
    /\ Fresh
Init == InitGit \/ InitRuff \/ InitValidate

\* a patched file of one path with any hunks within the bounds
InitLines ==
    /\ op = PARSE_LINES
    /\ \E h \in 0..MaxHunks : \E sizes \in [1..h -> 0..MaxLines] :
            /\ SumTo(sizes, h) <= MaxLines
            /\ \E entries \in [1..SumTo(sizes, h) -> Lines] :
                    patched_file = PatchedFile(FilePath(1), HunksOf(entries, sizes))
    /\ cwd = WorkDir /\ git_dir = GitDirAt(WorkDir) /\ git_diff = <<>>
    /\ NoGitArgs /\ ruff_stdout = None
    /\ Fresh

\* -------------------------------------- parse_git_modified_lines, by step
\* lines 85-86: Repo(search_parent_directories=True) raises where no repository
\* encloses the working directory
RepoLookup ==
    /\ op = PARSE_GIT /\ pc = "start"
    /\ repo_lookups' = repo_lookups + 1
    /\ IF RepoFound(git_dir)
       THEN /\ repo_root' = Parent(git_dir[1])
            /\ pc' = "args"
            /\ UNCHANGED outcome
       ELSE /\ outcome' = Raise("InvalidGitRepositoryError", "")
            /\ pc' = "done"
            /\ UNCHANGED repo_root
    /\ UNCHANGED <<env, args, diff_args, patch_set, result, diff_calls, changed_lines,
                   ruff_locals, repo_path, log>>

\* lines 88-104
BuildDiffArgs ==
    /\ op = PARSE_GIT /\ pc = "args"
    /\ LET p == PrepareDiffArgs(mode, base_branch, diff_ref) IN
       IF p.error # None
       THEN /\ outcome' = Raise("ValueError", p.error[1])
            /\ pc' = "done"
            /\ UNCHANGED diff_args
       ELSE /\ diff_args' = p.diff_args
            /\ pc' = "diff"
            /\ UNCHANGED outcome
    /\ UNCHANGED <<env, args, repo_root, patch_set, result, diff_calls, repo_lookups,
                   changed_lines, ruff_locals, repo_path, log>>

\* lines 106-111 and PatchSet(diff_output) of line 115
GitDiff_twice ==
    /\ op = PARSE_GIT /\ pc = "diff"
    /\ diff_calls' = diff_calls \o <<Invocation(diff_args), Invocation(diff_args)>>
    /\ patch_set' = git_diff
    /\ pc' = "result"
    /\ UNCHANGED <<env, args, repo_root, diff_args, result, repo_lookups, changed_lines,
                   ruff_locals, repo_path, log, outcome>>
GitDiff ==
    /\ op = PARSE_GIT /\ pc = "diff"
    /\ diff_calls' = Append(diff_calls, Invocation(diff_args))
    /\ patch_set' = git_diff
    /\ pc' = "result"
    /\ UNCHANGED <<env, args, repo_root, diff_args, result, repo_lookups, changed_lines,
                   ruff_locals, repo_path, log, outcome>>

\* lines 113-116
AssembleResult ==
    /\ op = PARSE_GIT /\ pc = "result"
    /\ result' = BuildResult(repo_root, patch_set)
    /\ pc' = "log"
    /\ UNCHANGED <<env, args, repo_root, diff_args, patch_set, diff_calls, repo_lookups,
                   changed_lines, ruff_locals, repo_path, log, outcome>>

\* lines 118-134
\* the test "if result:" of line 118
HasResult_any_line(d) == \E k \in DOMAIN d : d[k] # {}
HasResult(d) == Truthy(d)
LogAndReturn ==
    /\ op = PARSE_GIT /\ pc = "log"
    /\ log' = Append(log, IF HasResult(result)
                          THEN Log("debug", MsgModified, <<>>)
                          ELSE Log("warning", MsgNoLines, Append(repo_root, mode)))
    /\ outcome' = Return
    /\ pc' = "done"
    /\ UNCHANGED <<env, args, git_locals, repo_lookups, changed_lines, ruff_locals,
                   repo_path>>

\* ------------------------------------------------ parse_modified_lines
\* lines 68-83, applied to one patched file
ParseModifiedLines ==
    /\ op = PARSE_LINES /\ pc = "start"
    /\ changed_lines' = parse_modified_lines(patched_file)
    /\ outcome' = Return
    /\ pc' = "done"
    /\ UNCHANGED <<env, args, git_locals, repo_lookups, ruff_locals, repo_path, log>>

\* --------------------------------------------- parse_ruff_output, by step
\* "if not ruff_stdout": None and the empty text
NoOutput(out) == out = None \/ out[1] = <<>>
\* lines 28-38
DecodeRuffOutput_swallow ==
    /\ op = PARSE_RUFF /\ pc = "start"
    /\ IF NoOutput(ruff_stdout)
       THEN /\ log' = log \o <<Log("debug", MsgRuffStdout, <<>>), Log("debug", MsgNoRuff, <<>>)>>
            /\ outcome' = Return
            /\ pc' = "done"
            /\ UNCHANGED <<json_calls, raw_violations>>
       ELSE LET r == json_loads(ruff_stdout[1]) IN
            /\ json_calls' = json_calls + 1
            /\ IF r.ok
               THEN /\ raw_violations' = Some(r.val)
                    /\ log' = Append(log, Log("debug", MsgRuffStdout, <<>>))
                    /\ pc' = "map"
                    /\ UNCHANGED outcome
               ELSE /\ log' = log \o <<Log("debug", MsgRuffStdout, <<>>),
                                       Log("error", MsgNotJson, <<>>)>>
                    /\ outcome' = Return
                    /\ pc' = "done"
                    /\ UNCHANGED raw_violations
    /\ UNCHANGED <<env, args, git_locals, repo_lookups, changed_lines, parse_calls,
                   violations, repo_path>>
DecodeRuffOutput ==
    /\ op = PARSE_RUFF /\ pc = "start"
    /\ IF NoOutput(ruff_stdout)
       THEN /\ log' = log \o <<Log("debug", MsgRuffStdout, <<>>), Log("debug", MsgNoRuff, <<>>)>>
            /\ outcome' = Return
            /\ pc' = "done"
            /\ UNCHANGED <<json_calls, raw_violations>>
       ELSE LET r == json_loads(ruff_stdout[1]) IN
            /\ json_calls' = json_calls + 1
            /\ IF r.ok
               THEN /\ raw_violations' = Some(r.val)
                    /\ log' = Append(log, Log("debug", MsgRuffStdout, <<>>))
                    /\ pc' = "map"
                    /\ UNCHANGED outcome
               ELSE /\ log' = log \o <<Log("debug", MsgRuffStdout, <<>>),
                                       Log("error", MsgNotJson, <<>>)>>
                    /\ outcome' = Raise("JSONDecodeError", "")
                    /\ pc' = "done"
                    /\ UNCHANGED raw_violations
    /\ UNCHANGED <<env, args, git_locals, repo_lookups, changed_lines, parse_calls,
                   violations, repo_path>>

\* lines 40-42
MapViolations ==
    /\ op = PARSE_RUFF /\ pc = "map"
    /\ violations' = MapParse(raw_violations[1].items)
    /\ parse_calls' = parse_calls + Len(raw_violations[1].items)
    /\ log' = Append(log, Log("debug", MsgParsed, <<>>))
    /\ outcome' = Return
    /\ pc' = "done"
    /\ UNCHANGED <<env, args, git_locals, repo_lookups, changed_lines, json_calls,
                   raw_violations, repo_path>>

\* ---------------------------------------------------- validate_repo_path
\* lines 152-156
ValidateRepoPath_unresolved ==
    /\ op = VALIDATE /\ pc = "start"
    /\ repo_lookups' = repo_lookups + 1
    /\ IF RepoFound(git_dir)
       THEN /\ repo_path' = Some(Parent(git_dir[1]))
            /\ outcome' = Return
            /\ UNCHANGED log
       ELSE /\ log' = Append(log, Log("error", MsgNoRepo, cwd))
            /\ outcome' = Exit(1)
            /\ UNCHANGED repo_path
    /\ pc' = "done"
    /\ UNCHANGED <<env, args, git_locals, changed_lines, ruff_locals>>
ValidateRepoPath ==
    /\ op = VALIDATE /\ pc = "start"
    /\ repo_lookups' = repo_lookups + 1
    /\ IF RepoFound(git_dir)
       THEN /\ repo_path' = Some(Resolve(Parent(git_dir[1])))
            /\ outcome' = Return
            /\ UNCHANGED log
       ELSE /\ log' = Append(log, Log("error", MsgNoRepo, cwd))
            /\ outcome' = Exit(1)
            /\ UNCHANGED repo_path
    /\ pc' = "done"
    /\ UNCHANGED <<env, args, git_locals, changed_lines, ruff_locals>>

\* ------------------------------------------------------- specifications
Next ==
    \/ RepoLookup
    \/ BuildDiffArgs
    \/ GitDiff
    \/ AssembleResult
    \/ LogAndReturn
    \/ DecodeRuffOutput
    \/ MapViolations
    \/ ValidateRepoPath
Spec == Init /\ [][Next]_vars

NextLines == ParseModifiedLines
SpecLines == InitLines /\ [][NextLines]_vars

Done == pc = "done"
Returned == Done /\ outcome.kind = "return"
Raised(exc) == Done /\ outcome.kind = "raise" /\ outcome.exc = exc

\* ================================================================ claims
GitCall == op = PARSE_GIT
MissingParam ==
    \/ mode = BRANCH /\ Falsy(base_branch)
    \/ mode = REF /\ Falsy(diff_ref)
\* a line entry that counts as changed: added, some character of its content is
\* not whitespace, and it has a target line number
Qualifies(l) ==
    /\ l.line_type = ADDED
    /\ \E i \in 1..Len(l.value) : l.value[i] \notin Whitespace
    /\ l.target_line_no # None
QualifyingNumbers(pf) ==
    {n \in 1..MaxLineNo :
        \E h \in 1..Len(pf.hunks) : \E i \in 1..Len(pf.hunks[h]) :
            Qualifies(pf.hunks[h][i]) /\ pf.hunks[h][i].target_line_no = Some(n)}

\* C1: every invocation of the diff carries both ignore options and exactly the
\* positional arguments of the mode: BRANCH the base branch alone, REF the
\* reference alone, STAGED "--cached" alone, UNSTAGED none -- whatever the
\* parameters the mode does not use; so at most one positional argument.
C1_DiffArguments ==
    GitCall =>
        \A i \in 1..Len(diff_calls) :
            /\ diff_calls[i].kwargs = {"ignore_blank_lines", "ignore_space_at_eol"}
            /\ Len(diff_calls[i].args) <= 1
            /\ mode = BRANCH => base_branch # None /\ diff_calls[i].args = <<base_branch[1]>>
            /\ mode = REF => diff_ref # None /\ diff_calls[i].args = <<diff_ref[1]>>
            /\ mode = STAGED => diff_calls[i].args = <<"--cached">>
            /\ mode = UNSTAGED => diff_calls[i].args = <<>>
C1_Witness ==
    /\ GitCall /\ Done /\ mode = STAGED
    /\ base_branch = Some("origin/main") /\ diff_ref = Some("HEAD~1")
    /\ Len(diff_calls) = 1

\* C2: with a repository present, BRANCH mode without a (non-empty) base_branch
\* ends in ValueError "base_branch is required for BRANCH mode", REF mode
\* without a (non-empty) diff_ref in ValueError "diff_ref is required for REF
\* mode"; the diff is never invoked and nothing is returned; the two messages
\* differ; STAGED and UNSTAGED never end in ValueError.
C2_MissingParameter ==
    (GitCall /\ RepoFound(git_dir)) =>
        /\ MissingParam => diff_calls = <<>> /\ outcome.kind # "return"
        /\ (Done /\ mode = BRANCH /\ Falsy(base_branch)) =>
                outcome = Raise("ValueError", "base_branch is required for BRANCH mode")
        /\ (Done /\ mode = REF /\ Falsy(diff_ref)) =>
                outcome = Raise("ValueError", "diff_ref is required for REF mode")
        /\ mode \in {STAGED, UNSTAGED} => outcome.exc # "ValueError"
        /\ MsgBranch # MsgRef
C2_Witness ==
    /\ GitCall /\ RepoFound(git_dir) /\ Raised("ValueError")
    /\ mode = REF /\ diff_ref = Some("") /\ base_branch = Some("origin/main")

\* C3: the set parse_modified_lines returns for a patched file is exactly the
\* set of target line numbers of its entries, over all hunks, that are added,
\* have a non-whitespace character and have a target line number.
C3_ChangedLines ==
    (op = PARSE_LINES /\ Done) => changed_lines = QualifyingNumbers(patched_file)
C3_Witness ==
    /\ op = PARSE_LINES /\ Done
    /\ Len(patched_file.hunks) = 2
    /\ changed_lines = {1}
    /\ \E h \in 1..2 : \E i \in 1..Len(patched_file.hunks[h]) :
            patched_file.hunks[h][i] = Entry(ADDED, BlankLine, Some(2))

\* C4 as claimed: a key of the returned map has a patch with at least one hunk,
\* every patch with a hunk is a key, and a file without qualifying lines maps
\* to the empty set.
C4_Original ==
    (GitCall /\ Returned) =>
        /\ \A k \in DOMAIN result :
                \E i \in 1..Len(patch_set) :
                    KeyOf(repo_root, patch_set[i]) = k /\ Len(patch_set[i].hunks) >= 1
        /\ \A i \in 1..Len(patch_set) :
                Len(patch_set[i].hunks) >= 1 =>
                    /\ repo_root \o patch_set[i].path \in DOMAIN result
                    /\ QualifyingNumbers(patch_set[i]) = {} =>
                            result[repo_root \o patch_set[i].path] = {}
\* C4 amended: the keys of the returned map are exactly the repository root
\* joined with the path of every per-file patch the diff reported, with or
\* without hunks; each is mapped to its qualifying line numbers, the empty set
\* when none qualifies.
C4_Keys ==
    (GitCall /\ Returned) =>
        /\ DOMAIN result = {repo_root \o patch_set[i].path : i \in 1..Len(patch_set)}
        /\ \A i \in 1..Len(patch_set) :
                result[repo_root \o patch_set[i].path] = QualifyingNumbers(patch_set[i])
C4_Witness ==
    /\ GitCall /\ Returned
    /\ Len(patch_set) = 2
    /\ patch_set[1].hunks = <<>>
    /\ Len(patch_set[2].hunks) = 1
    /\ \A k \in DOMAIN result : result[k] = {}
    /\ Cardinality(DOMAIN result) = 2

\* C5: with a repository and valid parameters, in every mode, an empty diff
\* ends in a normal return of the empty map after exactly one diff invocation.
C5_EmptyDiff ==
    (GitCall /\ Done /\ RepoFound(git_dir) /\ ~MissingParam /\ git_diff = <<>>) =>
        /\ outcome = Return
        /\ result = EmptyMap
        /\ Len(diff_calls) = 1
C5_Witness ==
    /\ GitCall /\ Returned /\ git_diff = <<>> /\ mode = BRANCH
    /\ result = EmptyMap /\ Len(diff_calls) = 1

\* C6 as claimed: when no line qualifies in any reported file, a warning is
\* logged and the empty map returned; the debug log of the mapping is emitted
\* only when some line qualifies.
C6_Original ==
    (GitCall /\ Returned) =>
        /\ (\A i \in 1..Len(patch_set) : QualifyingNumbers(patch_set[i]) = {}) =>
                Logged(log, "warning", MsgNoLines) /\ result = EmptyMap
        /\ Logged(log, "debug", MsgModified) =>
                \E i \in 1..Len(patch_set) : QualifyingNumbers(patch_set[i]) # {}
\* C6 amended: the warning is logged, and the empty map returned, exactly when
\* the diff reported no per-file patch; when it reported one, even with no
\* qualifying line, the debug log of the mapping is emitted, no warning is
\* logged and the returned map is not empty.
C6_WarningOnlyOnEmptyDiff ==
    (GitCall /\ Returned) =>
        /\ patch_set = <<>> =>
                /\ log = <<Log("warning", MsgNoLines, Append(repo_root, mode))>>
                /\ result = EmptyMap
        /\ patch_set # <<>> =>
                /\ log = <<Log("debug", MsgModified, <<>>)>>
                /\ result # EmptyMap
C6_Witness ==
    /\ GitCall /\ Returned
    /\ patch_set # <<>>
    /\ \A i \in 1..Len(patch_set) : QualifyingNumbers(patch_set[i]) = {}
    /\ Logged(log, "debug", MsgModified)
    /\ ~Logged(log, "warning", MsgNoLines)

\* C7 as claimed: a missing required mode parameter is detected before the
\* repository lookup and before the diff, so the call ends in the ValueError
\* in every environment.
C7_Claim ==
    (GitCall /\ MissingParam /\ Done) =>
        /\ outcome = Raise("ValueError", IF mode = BRANCH THEN MsgBranch ELSE MsgRef)
        /\ repo_lookups = 0
        /\ diff_calls = <<>>

\* C8: on a non-empty text that is not valid JSON, parse_ruff_output logs the
\* error and ends in the JSON decode error; nothing is returned and no
\* Violation is constructed.
C8_MalformedReport ==
    (op = PARSE_RUFF /\ Done /\ ~NoOutput(ruff_stdout) /\ ~json_loads(ruff_stdout[1]).ok) =>
        /\ outcome = Raise("JSONDecodeError", "")
        /\ log[Len(log)] = Log("error", "Could not parse Ruff output as JSON", <<>>)
        /\ violations = <<>>
        /\ parse_calls = 0
C8_Witness ==
    /\ op = PARSE_RUFF /\ Raised("JSONDecodeError")
    /\ ruff_stdout = Some(<<"[", "objFix", ",">>)
    /\ Logged(log, "error", MsgNotJson)

\* the object tokens of a report, in input order
ObjectsOf(s) == SelectSeq(s, LAMBDA t : t \in ObjectTokens)
\* C9: on absent or empty input parse_ruff_output returns the empty tuple
\* without decoding; on a JSON array of findings it returns one Violation per
\* object, in input order.
C9_OnePerObject ==
    (op = PARSE_RUFF /\ Done) =>
        /\ NoOutput(ruff_stdout) =>
                outcome = Return /\ violations = <<>> /\ json_calls = 0 /\ parse_calls = 0
        /\ (~NoOutput(ruff_stdout) /\ json_loads(ruff_stdout[1]).ok) =>
                /\ outcome = Return
                /\ Len(violations) = Len(ObjectsOf(ruff_stdout[1]))
                /\ \A i \in 1..Len(violations) :
                        violations[i] = Violation_parse(RawObject(ObjectsOf(ruff_stdout[1])[i]))
C9_Witness ==
    /\ op = PARSE_RUFF /\ Returned
    /\ ruff_stdout = Some(<<"[", "objNoFix", ",", "objFix", "]">>)
    /\ Len(violations) = 2
    /\ violations[1].is_autofixable = FALSE
    /\ violations[2].is_autofixable = TRUE

\* C10: validate_repo_path ends in one of two ways: with a repository, it
\* returns the resolved parent of the metadata directory and logs nothing;
\* without one, it logs one error naming the working directory and exits with
\* status 1; the repository-not-found exception never reaches the caller.
C10_TwoOutcomes ==
    (op = VALIDATE /\ Done) =>
        /\ outcome.kind # "raise"
        /\ git_dir # None =>
                /\ outcome = Return
                /\ log = <<>>
                /\ repo_path # None
                /\ Len(repo_path[1]) = Len(git_dir[1]) - 1
                /\ \A i \in 1..Len(repo_path[1]) :
                        repo_path[1][i] = (IF git_dir[1][i] = "lnk" THEN "dir" ELSE git_dir[1][i])
        /\ git_dir = None =>
                /\ outcome = Exit(1)
                /\ log = <<Log("error", MsgNoRepo, cwd)>>
                /\ repo_path = None
C10_Witness ==
    /\ op = VALIDATE /\ Returned
    /\ cwd = <<"lnk", "dir">>
    /\ git_dir = Some(<<"lnk", ".git">>)
    /\ repo_path = Some(<<"dir">>)

====
